---------------------------- MODULE Spec2Model ----------------------------
(***************************************************************************)
(* A model of the voz-data-scaper ingestion and analytics programs:        *)
(*   - DemospiderSpider (spiders/demospider.py): thread discovery and      *)
(*     ordering, id generation, extraction of the latest reply;            *)
(*   - FetchMessagePipeline / SentimentAnalysisPipeline (pipelines.py):    *)
(*     sentiment tagging and the upsert into voz_messages;                 *)
(*   - the analytics API (main.py): start-up, the 24-hour aggregates and   *)
(*     the paginated message listing.                                      *)
(* Five specifications share the variables: Spec (the crawler's item       *)
(* pipeline writing to the store), SpecDiscovery (parse of a listing       *)
(* page), SpecStartup (the start-up of both processes), SpecStats (the     *)
(* 24-hour aggregates read while the crawler writes) and SpecMessages      *)
(* (the paginated listing read while the crawler writes).                  *)
(***************************************************************************)
EXTENDS Integers, Sequences, FiniteSets, TLC

VARIABLES
    \* ---- discovery (DemospiderSpider.parse)
    response,       \* the listing page last fetched: a sequence of containers
    parseStatus,    \* "idle" | "fetched" | "done" | "ValueError" | "TypeError"
    requests,       \* the follow-up requests parse yielded, in order
    \* ---- the store and its reachability
    dbUp,           \* whether psycopg2.connect can reach the database
    store,          \* table voz_messages: a set of rows
    clock,          \* wall clock, in units of 1/UnitsPerHour hour
    ticks,          \* number of clock advances so far
    \* ---- crawler item pipeline
    conn,           \* SentimentAnalysisPipeline's self.conn/self.cur
    pc,             \* position of the item in flight
    item,           \* the item in flight, or NoItem
    label,          \* what sentiment(text) did for the item in flight, or "none"
    outcome,        \* how SentimentAnalysisPipeline.process_item ended last
    log,            \* the items whose INSERT ... ON CONFLICT was committed, in order
    nItems,         \* number of thread pages handed to parse_latest_message
    \* ---- analytics API
    apiPc,          \* "boot" | "waiting" | "ready" | "serving" | "aborted"
    retries,        \* wait_for_db's local counter
    apiConnected,   \* whether a connection attempt of the API process has succeeded
    statsResult,    \* last answer of get_sentiment_stats, or NoResult
    summaryResult,  \* last answer of get_sentiment_summary, or NoResult
    msgQuery,       \* get_messages_with_sentiment between its two queries, or NoQuery
    msgResult,      \* last answer of get_messages_with_sentiment, or NoResult
    nRequests       \* number of API requests handled

discoveryVars == <<response, parseStatus, requests>>
storeVars     == <<dbUp, store, clock, ticks>>
crawlVars     == <<conn, pc, item, label, outcome, log, nItems>>
startupVars   == <<apiPc, retries, apiConnected>>
queryVars     == <<statsResult, summaryResult, msgQuery, msgResult, nRequests>>
vars == <<discoveryVars, storeVars, crawlVars, startupVars, queryVars>>

\* None as the value of a missing datetime attribute, and the "nothing
\* there" markers of the model.
None     == [kind |-> "none", t |-> 0]
NoItem   == [none |-> TRUE]
NoResult == [kind |-> "none"]
NoQuery  == [kind |-> "none"]

-----------------------------------------------------------------------------
(***************************************************************************)
(* Discovery: DemospiderSpider.parse                                       *)
(***************************************************************************)

\* Bounds of the listing pages explored.
MaxThreads == 3
MaxT == 2

\* The value of a container's <time datetime=...> attribute: missing (None),
\* a string datetime.fromisoformat rejects ("bad"), an ISO string without
\* UTC offset ("naive") or one with an offset or a trailing Z ("aware").
\* t is the instant it denotes; instants are 1..MaxT, datetime.min is 0.
DateStrs ==
    {None, [kind |-> "bad", t |-> 0]}
        \cup [kind : {"naive", "aware"}, t : 1..MaxT]

\* A thread container of the listing: whether it has a /latest link, and its date.
Containers == [link : BOOLEAN, date : DateStrs]

Pages == UNION {[1..n -> Containers] : n \in 0..MaxThreads}

\* datetime.fromisoformat(thread_date_str.replace('Z', '+00:00')) if
\* thread_date_str else None. "ValueError" stands for the raised exception.
FromIsoFormat(s) ==
    CASE s.kind = "none" -> None
      [] s.kind = "bad"  -> [kind |-> "ValueError", t |-> 0]
      [] OTHER           -> [kind |-> s.kind, t |-> s.t]

\* thread_info of the container at position i (its url is its position:
\* every container links to its own thread).
ThreadInfo(page, i) ==
    [url         |-> i,
     thread_date |-> page[i].date,
     timestamp   |-> FromIsoFormat(page[i].date)]

\* The threads list: one thread_info per container with a latest link.
RECURSIVE ThreadsFrom(_, _)
ThreadsFrom(page, i) ==
    IF i > Len(page) THEN <<>>
    ELSE (IF page[i].link THEN <<ThreadInfo(page, i)>> ELSE <<>>)
            \o ThreadsFrom(page, i + 1)

Threads(page) == ThreadsFrom(page, 1)

\* datetime.min: a naive datetime.
DatetimeMin == [kind |-> "naive", t |-> 0]

\* key=lambda x: x['timestamp'] if x['timestamp'] else datetime.min
SortKey(x) == IF x.timestamp # None THEN x.timestamp ELSE DatetimeMin

\* sorted(..., reverse=True) is stable: of two threads with equal keys the
\* one that came first stays first. Insert x behind every element whose key
\* is >= x's key.
RECURSIVE InsertDesc(_, _)
InsertDesc(sorted, x) ==
    IF sorted = <<>> THEN <<x>>
    ELSE IF SortKey(Head(sorted)).t >= SortKey(x).t
         THEN <<Head(sorted)>> \o InsertDesc(Tail(sorted), x)
         ELSE <<x>> \o sorted

RECURSIVE SortedDescFrom(_, _, _)
SortedDescFrom(threads, i, acc) ==
    IF i > Len(threads) THEN acc
    ELSE SortedDescFrom(threads, i + 1, InsertDesc(acc, threads[i]))

SortedDesc(threads) == SortedDescFrom(threads, 1, <<>>)

\* Comparing a naive with an aware datetime raises TypeError; a sort of two
\* or more keys compares across the two kinds as soon as both occur.
MixedAwareness(threads) ==
    \E i, j \in 1..Len(threads) :
        SortKey(threads[i]).kind # SortKey(threads[j]).kind

\* parse as a whole: the status it ends with and the requests it yields.
\* The list is built and sorted before the first yield, so an exception
\* leaves no request behind.
ParseResult(page) ==
    LET threads == Threads(page) IN
    IF \E i \in 1..Len(threads) : threads[i].timestamp.kind = "ValueError"
    THEN [status |-> "ValueError", requests |-> <<>>]
    ELSE IF MixedAwareness(threads)
    THEN [status |-> "TypeError", requests |-> <<>>]
    ELSE [status |-> "done", requests |-> SortedDesc(threads)]

\* The listing page arrives (start_urls, one per crawl).
FetchListing ==
    /\ parseStatus = "idle"
    /\ \E page \in Pages : response' = page
    /\ parseStatus' = "fetched"
    /\ requests' = <<>>
    /\ UNCHANGED <<storeVars, crawlVars, startupVars, queryVars>>

Parse ==
    /\ parseStatus = "fetched"
    /\ LET r == ParseResult(response) IN
        /\ parseStatus' = r.status
        /\ requests' = r.requests
    /\ UNCHANGED <<response, storeVars, crawlVars, startupVars, queryVars>>

-----------------------------------------------------------------------------
(***************************************************************************)
(* Time, the database and the table voz_messages                           *)
(***************************************************************************)

\* Resolution of the clock (units per hour) and bounds of a run.
UnitsPerHour == 2
MaxTicks == 2
MaxItems == 2
MaxRequests == 2

\* INTERVAL '24 hours'
WindowHours == 24

WindowUnits == WindowHours * UnitsPerHour

\* Time passes by one unit or by the whole window.
Deltas == {1, WindowUnits}

Tick(deltas) ==
    /\ ticks < MaxTicks
    /\ \E d \in deltas : clock' = clock + d
    /\ ticks' = ticks + 1
    /\ UNCHANGED <<dbUp, store, discoveryVars, crawlVars, startupVars, queryVars>>

\* The database becomes unreachable: a connection that was open is lost,
\* and nothing in the pipeline ever opens another one.
DbGoesDown ==
    /\ dbUp
    /\ dbUp' = FALSE
    /\ conn' = IF conn = "open" THEN "lost" ELSE conn
    /\ UNCHANGED <<store, clock, ticks, pc, item, label, outcome, log, nItems, discoveryVars, startupVars, queryVars>>

DbComesUp ==
    /\ ~dbUp
    /\ dbUp' = TRUE
    /\ UNCHANGED <<store, clock, ticks, discoveryVars, crawlVars, startupVars,
                   queryVars>>

\* The row the INSERT's VALUES clause builds from an item.
RowOf(it) ==
    [id               |-> it.id,
     thread_title     |-> it.thread_title,
     thread_date      |-> it.thread_date,
     latest_poster    |-> it.latest_poster,
     latest_post_time |-> it.latest_post_time,
     message_content  |-> it.message_content,
     thread_url       |-> it.thread_url,
     positive_count   |-> it.positive,
     negative_count   |-> it.negative,
     neutral_count    |-> it.neutral,
     analyzed_at      |-> it.processed_at]

\* A plausible slip: the conflict branch also takes the new message text.
UpsertOverwritingContent(rows, it) ==
    IF \E r \in rows : r.id = it.id
    THEN {IF r.id = it.id
          THEN [r EXCEPT !.positive_count  = it.positive,
                         !.negative_count  = it.negative,
                         !.neutral_count   = it.neutral,
                         !.message_content = it.message_content,
                         !.analyzed_at     = it.processed_at]
          ELSE r : r \in rows}
    ELSE rows \cup {RowOf(it)}

\* INSERT INTO voz_messages ... ON CONFLICT (id) DO UPDATE SET the three
\* counts and analyzed_at.
Upsert(rows, it) ==
    IF \E r \in rows : r.id = it.id
    THEN {IF r.id = it.id
          THEN [r EXCEPT !.positive_count = it.positive,
                         !.negative_count = it.negative,
                         !.neutral_count  = it.neutral,
                         !.analyzed_at    = it.processed_at]
          ELSE r : r \in rows}
    ELSE rows \cup {RowOf(it)}

-----------------------------------------------------------------------------
(***************************************************************************)
(* The crawler: id generation, extraction, tagging, storage                *)
(***************************************************************************)

\* A missing attribute (.get() returned None) and the id of an item for
\* which generate_item_id returned None.
NoneStr == "None"
NullId == <<>>

\* A url (response.url) is modelled as the pieces of its path between dots:
\* "/t/a" has none, "/t/a.1" and "/t/b.1" end in the same piece.
\* path_parts = parsed.path.split('.'); the last part if there are several.
ExtractThreadId(url) ==
    IF Len(url) > 1 THEN url[Len(url)] ELSE NoneStr

\* hashlib.md5(...).hexdigest() of "<thread_id>_<timestamp>": the digest is
\* modelled as the pair it is computed from (no collisions).
Md5(thread_id, timestamp) == <<thread_id, timestamp>>

GenerateItemId(thread_url, timestamp) ==
    LET thread_id == ExtractThreadId(thread_url) IN
    IF thread_id # NoneStr /\ thread_id # "" /\ timestamp # NoneStr /\ timestamp # ""
    THEN Md5(thread_id, timestamp)
    ELSE NullId

\* The spider is opened and Scrapy builds the pipeline: one connection
\* attempt, a failure is logged and construction goes on without
\* self.conn and self.cur.
PipelineInit ==
    /\ conn = "new"
    /\ conn' = IF dbUp THEN "open" ELSE "unset"
    /\ UNCHANGED <<pc, item, label, outcome, log, nItems,
                   storeVars, discoveryVars, startupVars, queryVars>>

\* A thread page as parse_latest_message meets it: its url, what parse put
\* into the request's meta (title and date of the thread), and its last
\* message: the poster, the text without quotes and the datetime attribute
\* of its <time class="u-dt"> (NoneStr when .get() finds none).
ThreadPage(url, title, date, poster, content, timestamp) ==
    [hasMessage  |-> TRUE,
     url         |-> url,
     thread_info |-> [thread_title |-> title, thread_date |-> date],
     username    |-> poster,
     content     |-> content,
     timestamp   |-> timestamp]

\* Thread 1 as first seen; thread 1 again, renamed (another slug in its url,
\* another title) and its last message edited; thread 2.
PageA1 == ThreadPage(<<"/t/a", "1">>, "A", "d1", "u1", "m1", "p1")
PageB1 == ThreadPage(<<"/t/b", "1">>, "B", "d2", "u2", "m2", "p1")
PageA2 == ThreadPage(<<"/t/a", "2">>, "A", "d1", "u1", "m1", "p1")
\* A url without a dot, a message without a datetime, a page without a message.
PageNoDot == ThreadPage(<<"/t/a">>, "A", "d1", "u1", "m1", "p1")
PageNoTime == ThreadPage(<<"/t/a", "1">>, "A", "d1", "u1", "m1", NoneStr)
PageEmpty == [PageA1 EXCEPT !.hasMessage = FALSE]

ThreadPages == {PageA1, PageB1, PageA2, PageNoDot, PageNoTime, PageEmpty}

\* parse_latest_message on a thread page. A page without any message
\* article raises IndexError at [-1] and yields nothing.
ParseLatestMessage(pages) ==
    /\ conn \in {"open", "unset", "lost"}
    /\ pc = "idle"
    /\ nItems < MaxItems
    /\ nItems' = nItems + 1
    /\ \E page \in pages :
          IF page.hasMessage
          THEN /\ item' = [id               |-> GenerateItemId(page.url, page.timestamp),
                           thread_title     |-> page.thread_info.thread_title,
                           thread_date      |-> page.thread_info.thread_date,
                           latest_poster    |-> page.username,
                           latest_post_time |-> page.timestamp,
                           message_content  |-> page.content,
                           thread_url       |-> page.url]
               /\ pc' = "extracted"
          ELSE /\ item' = NoItem
               /\ pc' = "idle"
    /\ label' = "none"
    /\ UNCHANGED <<conn, outcome, log, storeVars, discoveryVars,
                   startupVars, queryVars>>

\* What sentiment(text) can do: return one of its labels, return something
\* else, or raise.
Labels == {"positive", "negative", "neutral", "other"}
ClassifierOutcomes == Labels \cup {"raise"}

\* FetchMessagePipeline.analyze_sentiment
AnalyzeSentiment(l) ==
    CASE l = "raise"    -> [positive |-> 0, negative |-> 0, neutral |-> 0]
      [] l = "positive" -> [positive |-> 1, negative |-> 0, neutral |-> 0]
      [] l = "negative" -> [positive |-> 0, negative |-> 1, neutral |-> 0]
      [] OTHER          -> [positive |-> 0, negative |-> 0, neutral |-> 1]

\* FetchMessagePipeline.process_item: item.update({**sentiment_counts,
\* 'processed_at': datetime.now().isoformat()})
FetchProcessItem(outcomes) ==
    /\ pc = "extracted"
    /\ \E l \in outcomes :
        /\ label' = l
        /\ item' = ([processed_at |-> clock] @@ AnalyzeSentiment(l)) @@ item
    /\ pc' = "tagged"
    /\ UNCHANGED <<conn, outcome, log, nItems, storeVars,
                   discoveryVars, startupVars, queryVars>>

\* voz_messages.id is the primary key: a NULL id is refused.
PrimaryKeyAccepts(id) == id # NullId

\* SentimentAnalysisPipeline.process_item.
\*   - self.conn and self.cur were never set: self.cur.execute raises
\*     AttributeError, and so does self.conn.rollback() in the handler;
\*   - the connection is lost: the execute raises, and the rollback on the
\*     dead connection raises too or passes, as the driver has it;
\*   - otherwise the statement and the commit succeed, or one of them fails
\*     and the rollback undoes it.
\* Either way the item has then left the pipeline.
StoreProcessItem ==
    /\ pc = "tagged"
    /\ \/ /\ conn = "unset"
          /\ outcome' = "raised"
          /\ UNCHANGED <<store, log>>
       \/ /\ conn = "lost"
          /\ outcome' \in {"raised", "rolled_back"}
          /\ UNCHANGED <<store, log>>
       \/ /\ conn = "open"
          /\ PrimaryKeyAccepts(item.id)
          /\ store' = Upsert(store, item)
          /\ log' = Append(log, item)
          /\ outcome' = "stored"
       \/ /\ conn = "open"
          /\ outcome' = "rolled_back"
          /\ UNCHANGED <<store, log>>
    /\ pc' = "idle"
    /\ item' = NoItem
    /\ label' = "none"
    /\ UNCHANGED <<conn, nItems, dbUp, clock, ticks, discoveryVars,
                   startupVars, queryVars>>

\* close_spider: the cursor and the connection are closed.
CloseSpider ==
    /\ conn \in {"open", "lost", "unset"}
    /\ pc = "idle"
    /\ conn' = "closed"
    /\ UNCHANGED <<pc, item, label, outcome, log, nItems,
                   storeVars, discoveryVars, startupVars, queryVars>>

-----------------------------------------------------------------------------
(***************************************************************************)
(* The analytics API: start-up                                             *)
(***************************************************************************)

\* wait_for_db's max_retries (30 by default; the model runs it with less).
MaxRetries == 3

\* if __name__ == "__main__": uvicorn.run(...). The application starts
\* serving; nothing on this path calls wait_for_db.
ApiMain ==
    /\ apiPc \in {"boot", "ready"}
    /\ apiPc' = "serving"
    /\ UNCHANGED <<retries, apiConnected, storeVars, discoveryVars, crawlVars,
                   queryVars>>

\* wait_for_db is entered (by a launcher that calls it before serving).
WaitForDbEnter ==
    /\ apiPc = "boot"
    /\ apiPc' = "waiting"
    /\ retries' = 0
    /\ UNCHANGED <<apiConnected, storeVars, discoveryVars, crawlVars, queryVars>>

\* One turn of its loop: connect, close and return True, or count the
\* failure and sleep delay_seconds.
WaitForDbAttempt ==
    /\ apiPc = "waiting"
    /\ retries < MaxRetries
    /\ IF dbUp
       THEN /\ apiPc' = "ready"
            /\ apiConnected' = TRUE
            /\ UNCHANGED retries
       ELSE /\ retries' = retries + 1
            /\ UNCHANGED <<apiPc, apiConnected>>
    /\ UNCHANGED <<storeVars, discoveryVars, crawlVars, queryVars>>

\* The loop is left with retries = max_retries: raise Exception(...).
WaitForDbGiveUp ==
    /\ apiPc = "waiting"
    /\ retries >= MaxRetries
    /\ apiPc' = "aborted"
    /\ UNCHANGED <<retries, apiConnected, storeVars, discoveryVars, crawlVars,
                   queryVars>>

-----------------------------------------------------------------------------
(***************************************************************************)
(* The analytics API: queries                                              *)
(***************************************************************************)

\* A nullable SQL integer: SUM over no rows is NULL.
SqlNull == [null |-> TRUE, v |-> 0]
SqlInt(n) == [null |-> FALSE, v |-> n]

RECURSIVE SumOf(_, _)
SumOf(rows, col) ==
    IF rows = {} THEN 0
    ELSE LET r == CHOOSE x \in rows : TRUE
         IN r[col] + SumOf(rows \ {r}, col)

\* SUM(col)
SqlSum(rows, col) == IF rows = {} THEN SqlNull ELSE SqlInt(SumOf(rows, col))

\* WHERE analyzed_at >= NOW() - INTERVAL '24 hours'
InWindow(rows, now) == {r \in rows : r.analyzed_at >= now - WindowUnits}

\* DATE_TRUNC('hour', analyzed_at)
DateTruncHour(t) == (t \div UnitsPerHour) * UnitsPerHour

\* The elements of a set of integers, largest first.
RECURSIVE DescSeq(_)
DescSeq(S) ==
    IF S = {} THEN <<>>
    ELSE LET m == CHOOSE x \in S : \A y \in S : y <= x
         IN <<m>> \o DescSeq(S \ {m})

\* The query of get_sentiment_stats: GROUP BY time_bucket ORDER BY
\* time_bucket DESC.
SentimentStats(rows, now) ==
    LET inw == InWindow(rows, now)
        buckets == DescSeq({DateTruncHour(r.analyzed_at) : r \in inw})
        group(b) == {r \in inw : DateTruncHour(r.analyzed_at) = b}
    IN [i \in 1..Len(buckets) |->
            [time_bucket    |-> buckets[i],
             positive_count |-> SqlSum(group(buckets[i]), "positive_count"),
             negative_count |-> SqlSum(group(buckets[i]), "negative_count"),
             neutral_count  |-> SqlSum(group(buckets[i]), "neutral_count"),
             total_messages |-> Cardinality(group(buckets[i]))]]

\* A plausible slip: the summary without its WHERE clause.
SentimentSummaryNoWindow(rows, now) ==
    [total_positive |-> SqlSum(rows, "positive_count"),
     total_negative |-> SqlSum(rows, "negative_count"),
     total_neutral  |-> SqlSum(rows, "neutral_count"),
     total_messages |-> Cardinality(rows)]

\* The query of get_sentiment_summary.
SentimentSummary(rows, now) ==
    LET inw == InWindow(rows, now)
    IN [total_positive |-> SqlSum(inw, "positive_count"),
        total_negative |-> SqlSum(inw, "negative_count"),
        total_neutral  |-> SqlSum(inw, "neutral_count"),
        total_messages |-> Cardinality(inw)]

\* A request is answered with HTTP 500 when the connection cannot be made
\* (get_db_connection) or the query fails (psycopg2.Error).
Http500 == [kind |-> "error"]

GetSentimentStats ==
    /\ apiPc = "serving"
    /\ nRequests < MaxRequests
    /\ nRequests' = nRequests + 1
    /\ statsResult' = IF dbUp
                      THEN [kind |-> "ok", body |-> SentimentStats(store, clock)]
                      ELSE Http500
    /\ UNCHANGED <<summaryResult, msgQuery, msgResult, storeVars, discoveryVars,
                   crawlVars, startupVars>>

GetSentimentSummary ==
    /\ apiPc = "serving"
    /\ nRequests < MaxRequests
    /\ nRequests' = nRequests + 1
    /\ summaryResult' = IF dbUp
                        THEN [kind |-> "ok", body |-> SentimentSummary(store, clock)]
                        ELSE Http500
    /\ UNCHANGED <<statsResult, msgQuery, msgResult, storeVars, discoveryVars,
                   crawlVars, startupVars>>

\* The columns of voz_messages.
Columns ==
    {"id", "thread_title", "thread_date", "latest_poster", "latest_post_time",
     "message_content", "thread_url", "positive_count", "negative_count",
     "neutral_count", "analyzed_at"}

\* Query(10, ge=1, le=100), Query(0, ge=0), Optional[str]
Limits == {1, 100}
Offsets == {0, 1}
ThreadFilters == {NoneStr, "1"}

\* CASE WHEN positive_count = 1 THEN 'positive' WHEN negative_count = 1 THEN
\* 'negative' ELSE 'neutral' END
SentimentOf(r) ==
    IF r.positive_count = 1 THEN "positive"
    ELSE IF r.negative_count = 1 THEN "negative"
    ELSE "neutral"

\* The select list of the page query.
MessageOf(r) ==
    [id               |-> r.id,
     thread_title     |-> r.thread_title,
     thread_date      |-> r.thread_date,
     message_content  |-> r.message_content,
     latest_poster    |-> r.latest_poster,
     latest_post_time |-> r.latest_post_time,
     thread_url       |-> r.thread_url,
     sentiment        |-> SentimentOf(r),
     analyzed_at      |-> r.analyzed_at]

\* ORDER BY analyzed_at DESC: any arrangement of the rows that does not
\* ascend (rows of equal analyzed_at come in an order the database chooses).
OrderedByAnalyzedAtDesc(rows) ==
    {s \in [1..Cardinality(rows) -> rows] :
        /\ \A i, j \in DOMAIN s : i # j => s[i] # s[j]
        /\ \A i, j \in DOMAIN s : i < j => s[i].analyzed_at >= s[j].analyzed_at}

Min(a, b) == IF a < b THEN a ELSE b

\* LIMIT %s OFFSET %s
LimitOffset(s, limit, offset) ==
    [i \in 1..(Min(Len(s), offset + limit) - Min(Len(s), offset)) |-> s[offset + i]]

\* " AND thread_id = %s" is added for a non-empty thread_id; the statement
\* then names a column the table does not have and fails.
FilterFails(thread_id) == thread_id # NoneStr /\ thread_id # "" /\ "thread_id" \notin Columns

\* get_messages_with_sentiment, first statement: the page.
GetMessagesPage ==
    /\ apiPc = "serving"
    /\ msgQuery = NoQuery
    /\ nRequests < MaxRequests
    /\ nRequests' = nRequests + 1
    /\ \E limit \in Limits, offset \in Offsets, thread_id \in ThreadFilters :
        IF ~dbUp \/ FilterFails(thread_id)
        THEN /\ msgResult' = Http500
             /\ UNCHANGED msgQuery
        ELSE /\ \E s \in OrderedByAnalyzedAtDesc(store) :
                    msgQuery' = [kind      |-> "counting",
                                 messages  |-> LimitOffset([i \in DOMAIN s |-> MessageOf(s[i])],
                                                           limit, offset),
                                 limit     |-> limit,
                                 offset    |-> offset,
                                 thread_id |-> thread_id]
             /\ msgResult' = NoResult
    /\ UNCHANGED <<statsResult, summaryResult, storeVars, discoveryVars,
                   crawlVars, startupVars>>

\* get_messages_with_sentiment, second statement: SELECT COUNT(*), and the
\* answer. The crawler may have committed a write since the first.
GetMessagesCount ==
    /\ msgQuery # NoQuery
    /\ msgResult' = IF dbUp
                    THEN [kind     |-> "ok",
                          messages |-> msgQuery.messages,
                          total    |-> Cardinality(store),
                          limit    |-> msgQuery.limit,
                          offset   |-> msgQuery.offset,
                          thread_id |-> msgQuery.thread_id]
                    ELSE Http500
    /\ msgQuery' = NoQuery
    /\ UNCHANGED <<statsResult, summaryResult, nRequests, storeVars,
                   discoveryVars, crawlVars, startupVars>>

-----------------------------------------------------------------------------
(***************************************************************************)
(* Specifications                                                          *)
(***************************************************************************)

Init ==
    /\ response = <<>>
    /\ parseStatus = "idle"
    /\ requests = <<>>
    /\ dbUp \in BOOLEAN
    /\ store = {}
    /\ clock = WindowUnits
    /\ ticks = 0
    /\ conn = "new"
    /\ pc = "idle"
    /\ item = NoItem
    /\ label = "none"
    /\ outcome = "none"
    /\ log = <<>>
    /\ nItems = 0
    /\ apiPc = "boot"
    /\ retries = 0
    /\ apiConnected = FALSE
    /\ statsResult = NoResult
    /\ summaryResult = NoResult
    /\ msgQuery = NoQuery
    /\ msgResult = NoResult
    /\ nRequests = 0

\* Discovery alone.
NextDiscovery == FetchListing \/ Parse

SpecDiscovery == Init /\ [][NextDiscovery]_vars

\* The crawler's item pipeline, against a database that comes and goes.
Next ==
    \/ PipelineInit
    \/ ParseLatestMessage(ThreadPages)
    \/ FetchProcessItem(ClassifierOutcomes)
    \/ StoreProcessItem
    \/ CloseSpider
    \/ Tick({1})
    \/ DbGoesDown
    \/ DbComesUp

Spec == Init /\ [][Next]_vars

\* The start-up of the two processes that depend on the database.
NextStartup ==
    \/ ApiMain
    \/ WaitForDbEnter
    \/ WaitForDbAttempt
    \/ WaitForDbGiveUp
    \/ PipelineInit
    \/ ParseLatestMessage({PageA1, PageA2})
    \/ FetchProcessItem({"positive", "raise"})
    \/ StoreProcessItem
    \/ DbGoesDown
    \/ DbComesUp

SpecStartup == Init /\ [][NextStartup]_vars

\* The API's aggregate queries next to a crawler that keeps writing.
NextStats ==
    \/ ApiMain
    \/ GetSentimentStats
    \/ GetSentimentSummary
    \/ PipelineInit
    \/ ParseLatestMessage({PageA1, PageA2})
    \/ FetchProcessItem({"positive", "raise"})
    \/ StoreProcessItem
    \/ Tick(Deltas)

SpecStats == Init /\ [][NextStats]_vars

\* The API's message listing next to a crawler that keeps writing.
NextMessages ==
    \/ ApiMain
    \/ GetMessagesPage
    \/ GetMessagesCount
    \/ PipelineInit
    \/ ParseLatestMessage({PageA1, PageA2})
    \/ FetchProcessItem({"positive", "raise"})
    \/ StoreProcessItem
    \/ Tick(Deltas)

SpecMessages == Init /\ [][NextMessages]_vars

-----------------------------------------------------------------------------
(***************************************************************************)
(* Properties                                                              *)
(***************************************************************************)

OneHot(p, n, u) == {p, n, u} \subseteq {0, 1} /\ p + n + u = 1

\* C1: every item that has left the tagging stage carries exactly one 1
\* among positive/negative/neutral, whatever the classifier did, and every
\* stored row has positive_count + negative_count + neutral_count = 1.
C1_OneHot ==
    /\ pc = "tagged" => OneHot(item.positive, item.negative, item.neutral)
    /\ \A r \in store : OneHot(r.positive_count, r.negative_count, r.neutral_count)

\* C2: after the successful writes so far, every id written has exactly one
\* row; its content fields are those of the first write of that id, its
\* counts and analyzed_at those of the latest write of that id. (As this
\* holds for every id after every write, a write leaves the rows of the
\* other ids as they were.)
WrittenIds == {log[i].id : i \in 1..Len(log)}
FirstWrite(id) ==
    log[CHOOSE i \in 1..Len(log) :
            log[i].id = id /\ \A j \in 1..(i - 1) : log[j].id # id]
LastWrite(id) ==
    log[CHOOSE i \in 1..Len(log) :
            log[i].id = id /\ \A j \in (i + 1)..Len(log) : log[j].id # id]

C3_ClassifierFallback ==
    (pc = "tagged" /\ label = "raise") =>
        /\ item.positive = 0
        /\ item.negative = 0
        /\ item.neutral = 1

\* C4: once parse has handled a listing page, it has yielded exactly one
\* request per container with a latest-reply link, in descending order of
\* parsed timestamp, the threads without a parsed timestamp after all those
\* that have one.
Linked == {i \in 1..Len(response) : response[i].link}
HasParsedTimestamp(req) == req.thread_date.kind \in {"naive", "aware"}

C4_DiscoveryOrdering ==
    parseStatus \notin {"idle", "fetched"} =>
        /\ Len(requests) = Cardinality(Linked)
        /\ {requests[k].url : k \in 1..Len(requests)} = Linked
        /\ \A j, k \in 1..Len(requests) :
            (j < k /\ HasParsedTimestamp(requests[k])) =>
                /\ HasParsedTimestamp(requests[j])
                /\ requests[j].thread_date.t >= requests[k].thread_date.t

\* C5: no item whose id is None leaves the Reply Extractor: none is in
\* flight towards tagging or storage, and no row has a NULL id.
C5_SilentDrop ==
    /\ pc \in {"extracted", "tagged"} => item.id # NullId
    /\ \A r \in store : r.id # NullId

\* C6: neither process works against the store unless one of its
\* connection attempts has succeeded: the crawler handles no item and the
\* API serves no query before that; wait_for_db tries at most max_retries
\* times.
C6_StartupReadiness ==
    /\ pc \in {"extracted", "tagged"} => conn \in {"open", "lost", "closed"}
    /\ apiPc = "serving" => apiConnected
    /\ retries <= MaxRetries

\* The sum of one column over the buckets get_sentiment_stats returned.
RECURSIVE BucketSum(_, _)
BucketSum(buckets, col) ==
    IF buckets = <<>> THEN 0
    ELSE (IF col = "total_messages" THEN Head(buckets)[col] ELSE Head(buckets)[col].v)
            + BucketSum(Tail(buckets), col)

\* C7, as claimed: whenever both have answered, the totals of
\* get_sentiment_summary equal the sums, over the buckets of
\* get_sentiment_stats, of the buckets' counts and total_messages; also
\* when no row falls in the window and when writes come between the reads.
C7_WindowCorrectness ==
    (statsResult.kind = "ok" /\ summaryResult.kind = "ok") =>
        /\ summaryResult.body.total_positive = SqlInt(BucketSum(statsResult.body, "positive_count"))
        /\ summaryResult.body.total_negative = SqlInt(BucketSum(statsResult.body, "negative_count"))
        /\ summaryResult.body.total_neutral = SqlInt(BucketSum(statsResult.body, "neutral_count"))
        /\ summaryResult.body.total_messages = BucketSum(statsResult.body, "total_messages")

\* Both answers are what the two queries return for the table as it is now.
BothAnswersCurrent ==
    /\ statsResult.kind = "ok"
    /\ summaryResult.kind = "ok"
    /\ statsResult.body = SentimentStats(store, clock)
    /\ summaryResult.body = SentimentSummary(store, clock)

\* C7, amended: when both answers come from the same table contents at the
\* same instant, total_messages equals the sum of the buckets'
\* total_messages; the three sums equal the buckets' sums when a row falls
\* in the window, and are NULL, with no bucket returned, when none does.
C7_SameSnapshotAgreement ==
    BothAnswersCurrent =>
        /\ summaryResult.body.total_messages = BucketSum(statsResult.body, "total_messages")
        /\ IF statsResult.body = <<>>
           THEN /\ summaryResult.body.total_positive = SqlNull
                /\ summaryResult.body.total_negative = SqlNull
                /\ summaryResult.body.total_neutral = SqlNull
           ELSE /\ summaryResult.body.total_positive
                        = SqlInt(BucketSum(statsResult.body, "positive_count"))
                /\ summaryResult.body.total_negative
                        = SqlInt(BucketSum(statsResult.body, "negative_count"))
                /\ summaryResult.body.total_neutral
                        = SqlInt(BucketSum(statsResult.body, "neutral_count"))

\* Both queries have answered from a table with rows in two different hours
\* of the window.
C7_Witness ==
    /\ BothAnswersCurrent
    /\ Len(statsResult.body) = 2
    /\ summaryResult.body.total_messages = 2

\* C8: with the store reachable, every answer of get_messages_with_sentiment
\* holds at most limit rows in descending order of analyzed_at and a total
\* equal to the number of rows that match the thread filter, whatever
\* limit, offset and filter are.
Matching(rows, thread_id) ==
    IF thread_id = NoneStr THEN rows
    ELSE {r \in rows : ExtractThreadId(r.thread_url) = thread_id}

C8_Pagination ==
    [][(dbUp /\ msgResult' # msgResult /\ msgResult' # NoResult) =>
          /\ msgResult'.kind = "ok"
          /\ Len(msgResult'.messages) <= msgResult'.limit
          /\ \A i, j \in 1..Len(msgResult'.messages) :
                i < j => msgResult'.messages[i].analyzed_at
                            >= msgResult'.messages[j].analyzed_at
          /\ msgResult'.total
                = Cardinality(Matching(store', msgResult'.thread_id))]_vars

\* C9: a call of SentimentAnalysisPipeline.process_item whose write fails
\* does not raise and leaves the table as it was.
C9_StorageFaultIsolation ==
    [][(pc = "tagged" /\ pc' = "idle") =>
          /\ outcome' # "raised"
          /\ outcome' # "stored" => store' = store]_vars

\* C10: parse never raises on a listing page, whatever mixture of
\* parseable, absent and unparseable thread dates it holds, and yields a
\* request for every thread that has a latest-reply link.
C10_DiscoveryNeverAborts ==
    /\ parseStatus \notin {"ValueError", "TypeError"}
    /\ parseStatus = "done" =>
            {requests[k].url : k \in 1..Len(requests)} = Linked

=============================================================================
